---------------------------- MODULE Spec2Model ----------------------------
(***************************************************************************)
(* Protection layer of the Mitr chatbot: the sliding-window rate limiter   *)
(* (services/rate_limiter.py), the earlier check/record limiter            *)
(* (backups/20260217_144711/security.py) and the smart response cache      *)
(* (services/cache_manager.py).                                            *)
(*                                                                         *)
(* Time is counted in ticks of 1/TicksPerSecond seconds, so that the       *)
(* float clock of the program (datetime.now(), time.time()) can stand      *)
(* between two whole seconds and int() truncation is visible.              *)
(***************************************************************************)
EXTENDS Integers, Sequences, FiniteSets, TLC

TicksPerSecond == 2

Secs(s) == s * TicksPerSecond

None == "None"

(***************************************************************************)
(* Generic helpers on sequences.                                           *)
(***************************************************************************)
RECURSIVE SeqMin(_)
SeqMin(s) ==
    IF Len(s) = 1 THEN s[1]
    ELSE LET m == SeqMin(Tail(s)) IN IF s[1] < m THEN s[1] ELSE m

Max0(x) == IF x > 0 THEN x ELSE 0

VARIABLES
    now,            \* the wall clock, in ticks
    requests,       \* RateLimiter._requests: identity -> list of timestamps
    last,           \* the most recent event: the call made and what it returned
    calls,          \* every is_allowed call so far: <<identity, time, result>>
    advances,       \* how many times the clock has been moved on
    rate_limit_data,\* st.session_state.rate_limit_data: session id -> timestamps
    pc,             \* where each request thread stands in validate_and_rate_limit
    overlap,        \* a check ran while another request was between check and record
    response_cache, \* st.session_state.response_cache, in the dict's order
    cache_stats,    \* st.session_state.cache_stats
    selected_area,  \* st.session_state.selected_area ("" when not set)
    scenario,       \* the intents, clock steps and start time of this behaviour
    writes,         \* calls of set so far; call n passes response n
    _cache,         \* the module's global ResponseCache instance, or None
    session_state   \* per browser session: the cache's keys of st.session_state

rlVars == <<requests, calls>>

backupVars == <<rate_limit_data, pc, overlap>>

sessionVars == <<_cache, session_state>>

cacheVars == <<response_cache, cache_stats, selected_area, scenario, writes,
               _cache, session_state>>

vars == <<now, last, advances, requests, calls, rate_limit_data, pc, overlap,
          response_cache, cache_stats, selected_area, scenario, writes,
          _cache, session_state>>

(***************************************************************************)
(* services/rate_limiter.py: RateLimiter                                   *)
(***************************************************************************)
Users == {"u1", "u2"}

\* RateLimiter(max_requests, window_seconds): the constructor's arguments.
max_requests == 2
window_seconds == 2

RLMaxNow == 6       \* the clock stops here
MaxCalls == 4       \* is_allowed calls recorded in one behaviour

Window == Secs(window_seconds)

\* self._requests[user_id] read through the defaultdict: a missing identity
\* is inserted with an empty list.
DefaultGet(reqs, u) ==
    IF u \in DOMAIN reqs THEN reqs
    ELSE [x \in DOMAIN reqs \cup {u} |-> IF x = u THEN <<>> ELSE reqs[x]]

KeepAll(s, cutoff) == s

KeepNewer(s, cutoff) == SelectSeq(s, LAMBDA r : r > cutoff)

_cleanup_every_identity(reqs, u, t) ==
    LET kept == [x \in DOMAIN reqs |-> KeepNewer(reqs[x], t - Window)]
        live == {x \in DOMAIN reqs : kept[x] # <<>>}
    IN  [x \in live |-> kept[x]]

_cleanup_old_requests(reqs, u, t) ==
    IF u \notin DOMAIN reqs THEN reqs
    ELSE LET kept == KeepNewer(reqs[u], t - Window) IN
         IF kept = <<>>
         THEN [x \in DOMAIN reqs \ {u} |-> reqs[x]]
         ELSE [reqs EXCEPT ![u] = kept]

LimitReachedOffByOne(count) == count > max_requests

LimitReachedNever(count) == FALSE

LimitReached(count) == count >= max_requests

is_allowed_recording_all(u) ==
    /\ Len(calls) < MaxCalls
    /\ LET cleaned == DefaultGet(_cleanup_old_requests(requests, u, now), u)
           allowed == ~LimitReached(Len(cleaned[u]))
       IN  /\ requests' = [cleaned EXCEPT ![u] = Append(@, now)]
           /\ last' = [op |-> "is_allowed", user |-> u, ret |-> allowed]
           /\ calls' = Append(calls, <<u, now, allowed>>)
    /\ UNCHANGED <<now, advances, backupVars, cacheVars>>

is_allowed(u) ==
    /\ Len(calls) < MaxCalls
    /\ LET cleaned == DefaultGet(_cleanup_old_requests(requests, u, now), u)
           request_count == Len(cleaned[u])
       IN  IF LimitReached(request_count)
           THEN /\ requests' = cleaned
                /\ last' = [op |-> "is_allowed", user |-> u, ret |-> FALSE]
                /\ calls' = Append(calls, <<u, now, FALSE>>)
           ELSE /\ requests' = [cleaned EXCEPT ![u] = Append(@, now)]
                /\ last' = [op |-> "is_allowed", user |-> u, ret |-> TRUE]
                /\ calls' = Append(calls, <<u, now, TRUE>>)
    /\ UNCHANGED <<now, advances, backupVars, cacheVars>>

RetryAfterUnfloored(reqs, u, t) ==
    IF u \notin DOMAIN reqs \/ reqs[u] = <<>> THEN 0
    ELSE (SeqMin(reqs[u]) + Window - t) \div TicksPerSecond

RetryAfter(reqs, u, t) ==
    IF u \notin DOMAIN reqs \/ reqs[u] = <<>> THEN 0
    ELSE LET retry_time == SeqMin(reqs[u]) + Window IN
         \* int() truncates the fractional seconds, max(0, .) floors at zero
         IF retry_time - t <= 0 THEN 0 ELSE (retry_time - t) \div TicksPerSecond

get_retry_after(u) ==
    /\ last' = [op |-> "get_retry_after", user |-> u,
                ret |-> RetryAfter(requests, u, now)]
    /\ UNCHANGED <<now, advances, requests, calls, backupVars, cacheVars>>

get_remaining_requests(u) ==
    /\ LET cleaned == DefaultGet(_cleanup_old_requests(requests, u, now), u)
           used == Len(cleaned[u])
       IN  /\ requests' = cleaned
           /\ last' = [op |-> "get_remaining_requests", user |-> u,
                       ret |-> Max0(max_requests - used)]
    /\ UNCHANGED <<now, advances, calls, backupVars, cacheVars>>

\* services/security.py: validate_and_rate_limit(text, max_length); valid is
\* the outcome of validate_input(text, max_length).  For valid text the
\* function evaluates limiter.is_allowed(user_id), and user_id is a name that
\* neither the function nor the module defines: Python raises NameError
\* before is_allowed is entered.
validate_and_rate_limit(valid) ==
    /\ IF ~valid
       THEN last' = [op |-> "validate_and_rate_limit", user |-> None,
                     ret |-> <<FALSE, "invalid">>, raised |-> None]
       ELSE last' = [op |-> "validate_and_rate_limit", user |-> None,
                     ret |-> <<>>, raised |-> "NameError"]
    /\ UNCHANGED <<now, advances, rlVars, backupVars, cacheVars>>

\* datetime.now() moves on between two calls (it may also stand still).
TickRL ==
    /\ now < RLMaxNow
    /\ now' = now + 1
    /\ last' = [op |-> "tick", user |-> None, ret |-> None]
    /\ UNCHANGED <<advances, rlVars, backupVars, cacheVars>>

\* browser sessions served by the one process; each has its own
\* st.session_state
Sessions == {"s1", "s2"}

\* the keys ResponseCache.__init__ puts into the session state of the
\* session it runs in
CacheKeys == {"response_cache", "cache_stats"}

\* the session in which get_cache() first ran in the behaviours of the cache
Creator == "s1"

InitClock ==
    /\ now = 0
    /\ advances = 0
    /\ last = [op |-> "init", user |-> None, ret |-> None]

InitLimiter ==
    /\ requests = <<>>
    /\ calls = <<>>

\* the cache as the specifications of the limiters leave it: never used
InitCacheIdle ==
    /\ response_cache = <<>>
    /\ cache_stats = [hits |-> 0, misses |-> 0, invalidations |-> 0]
    /\ selected_area = ""
    /\ scenario = None
    /\ writes = 0
    /\ _cache = None
    /\ session_state = [s \in Sessions |-> {}]

(***************************************************************************)
(* backups/20260217_144711/security.py: the limiter whose check and record *)
(* are two calls, as validate_and_rate_limit makes them.  Request threads  *)
(* of one session share st.session_state.rate_limit_data.                  *)
(***************************************************************************)
Threads == {"t1", "t2"}

Session == "session"        \* _get_session_id(): one id for the whole session

\* The source sets 10, 50 and 200 (lines 87-89); the model keeps their order
\* and scales them down so that every threshold can be reached.
REQUESTS_PER_MINUTE == 2
REQUESTS_PER_HOUR == 3
REQUESTS_PER_DAY == 4

MaxAdvances == 3            \* clock advances in one behaviour

Minute == Secs(60)
Hour == Secs(3600)
Day == Secs(86400)

_clean_old_requests(data, t) ==
    LET d == DefaultGet(data, Session) IN
    [d EXCEPT ![Session] = KeepNewer(@, t - Day)]

ThresholdHitStrict(count, limit) == count > limit

ThresholdHit(count, limit) == count >= limit

CheckRateLimitHourFirst(reqs, t) ==
    LET recent_requests_1min == Len(KeepNewer(reqs, t - Minute))
        recent_requests_1hour == Len(KeepNewer(reqs, t - Hour))
    IN  IF ThresholdHit(recent_requests_1hour, REQUESTS_PER_HOUR)
        THEN <<FALSE, "hour">>
        ELSE IF ThresholdHit(recent_requests_1min, REQUESTS_PER_MINUTE)
        THEN <<FALSE, "minute">>
        ELSE IF ThresholdHit(Len(reqs), REQUESTS_PER_DAY)
        THEN <<FALSE, "day">>
        ELSE <<TRUE, "">>

\* check_rate_limit on the cleaned list: <<is_allowed, reason>>
CheckRateLimit(reqs, t) ==
    LET recent_requests_1min == Len(KeepNewer(reqs, t - Minute))
        recent_requests_1hour == Len(KeepNewer(reqs, t - Hour))
    IN  IF ThresholdHit(recent_requests_1min, REQUESTS_PER_MINUTE)
        THEN <<FALSE, "minute">>
        ELSE IF ThresholdHit(recent_requests_1hour, REQUESTS_PER_HOUR)
        THEN <<FALSE, "hour">>
        ELSE IF ThresholdHit(Len(reqs), REQUESTS_PER_DAY)
        THEN <<FALSE, "day">>
        ELSE <<TRUE, "">>

\* validate_and_rate_limit up to and including limiter.check_rate_limit();
\* valid is the outcome of validate_input(text, max_length).
ValidateAndCheck(t, valid) ==
    /\ pc[t] = "idle"
    /\ IF ~valid
       THEN /\ last' = [op |-> "validate_and_rate_limit", user |-> t,
                        ret |-> <<FALSE, "invalid">>]
            /\ UNCHANGED <<rate_limit_data, pc, overlap>>
       ELSE LET cleaned == _clean_old_requests(rate_limit_data, now)
                res == CheckRateLimit(cleaned[Session], now)
            IN  /\ rate_limit_data' = cleaned
                /\ IF res[1]
                   THEN /\ pc' = [pc EXCEPT ![t] = "checked"]
                        /\ overlap' = (overlap \/ \E o \in Threads \ {t} :
                                                      pc[o] = "checked")
                        /\ last' = [op |-> "check_rate_limit", user |-> t,
                                    ret |-> res]
                   ELSE /\ last' = [op |-> "validate_and_rate_limit",
                                    user |-> t, ret |-> res]
                        /\ UNCHANGED <<pc, overlap>>
    /\ UNCHANGED <<now, advances, rlVars, cacheVars>>

\* limiter.record_request() and the return of validate_and_rate_limit
RecordRequest(t) ==
    /\ pc[t] = "checked"
    /\ rate_limit_data' = [DefaultGet(rate_limit_data, Session)
                              EXCEPT ![Session] = Append(@, now)]
    /\ pc' = [pc EXCEPT ![t] = "idle"]
    /\ last' = [op |-> "validate_and_rate_limit", user |-> t,
                ret |-> <<TRUE, "">>]
    /\ UNCHANGED <<now, advances, overlap, rlVars, cacheVars>>

\* RateLimiter.get_stats of the check/record limiter: the counts of the
\* session and what is left of each limit, for display
limiter_get_stats ==
    /\ LET cleaned == _clean_old_requests(rate_limit_data, now)
           reqs == cleaned[Session]
           last_minute == Len(KeepNewer(reqs, now - Minute))
           last_hour == Len(KeepNewer(reqs, now - Hour))
       IN  /\ rate_limit_data' = cleaned
           /\ last' = [op |-> "get_stats", user |-> None,
                       ret |-> [last_minute |-> last_minute,
                                last_hour |-> last_hour,
                                last_day |-> Len(reqs),
                                remaining_minute |->
                                    REQUESTS_PER_MINUTE - last_minute,
                                remaining_hour |->
                                    REQUESTS_PER_HOUR - last_hour,
                                remaining_day |->
                                    REQUESTS_PER_DAY - Len(reqs)]]
    /\ UNCHANGED <<now, advances, pc, overlap, rlVars, cacheVars>>

TickBackup ==
    /\ advances < MaxAdvances
    /\ \E d \in {1, Minute, Hour, Day} : now' = now + d
    /\ advances' = advances + 1
    /\ last' = [op |-> "tick", user |-> None, ret |-> None]
    /\ UNCHANGED <<rlVars, backupVars, cacheVars>>

InitBackup ==
    /\ rate_limit_data = <<>>
    /\ pc = [t \in Threads |-> "idle"]
    /\ overlap = FALSE

InitRace == InitClock /\ InitLimiter /\ InitBackup /\ InitCacheIdle

NextRace ==
    \/ TickBackup
    \/ \E t \in Threads, valid \in BOOLEAN : ValidateAndCheck(t, valid)
    \/ \E t \in Threads : RecordRequest(t)
    \/ limiter_get_stats

SpecRace == InitRace /\ [][NextRace]_vars

(***************************************************************************)
(* services/cache_manager.py: SmartTTL                                     *)
(***************************************************************************)
RULES ==
    [monuments |-> 86400, temples |-> 86400, museums |-> 86400,
     history |-> 86400, landmarks |-> 86400,
     food |-> 21600, shopping |-> 21600, movies |-> 21600, itinerary |-> 21600,
     news |-> 3600, events |-> 3600, crowd |-> 3600,
     weather |-> 600, traffic |-> 600, fuel |-> 1800, metro |-> 1800,
     bus |-> 1800,
     utilities |-> 0, deals |-> 0, live_deals |-> 0,
     chat |-> 300, default |-> 600]

\* str.lower() on the intent names callers pass: each name of the table and
\* one unknown name, written Capitalised or in CAPITALS; a name already in
\* lower case is returned as it is
LowerCased ==
    [ Monuments |-> "monuments", MONUMENTS |-> "monuments",
      Temples |-> "temples", TEMPLES |-> "temples",
      Museums |-> "museums", MUSEUMS |-> "museums",
      History |-> "history", HISTORY |-> "history",
      Landmarks |-> "landmarks", LANDMARKS |-> "landmarks",
      Food |-> "food", FOOD |-> "food",
      Shopping |-> "shopping", SHOPPING |-> "shopping",
      Movies |-> "movies", MOVIES |-> "movies",
      Itinerary |-> "itinerary", ITINERARY |-> "itinerary",
      News |-> "news", NEWS |-> "news",
      Events |-> "events", EVENTS |-> "events",
      Crowd |-> "crowd", CROWD |-> "crowd",
      Weather |-> "weather", WEATHER |-> "weather",
      Traffic |-> "traffic", TRAFFIC |-> "traffic",
      Fuel |-> "fuel", FUEL |-> "fuel",
      Metro |-> "metro", METRO |-> "metro",
      Bus |-> "bus", BUS |-> "bus",
      Utilities |-> "utilities", UTILITIES |-> "utilities",
      Deals |-> "deals", DEALS |-> "deals",
      Live_deals |-> "live_deals", LIVE_DEALS |-> "live_deals",
      Chat |-> "chat", CHAT |-> "chat",
      Default |-> "default", DEFAULT |-> "default",
      Gossip |-> "gossip", GOSSIP |-> "gossip"]

Lower(intent) ==
    IF intent \in DOMAIN LowerCased THEN LowerCased[intent] ELSE intent

get_ttl_case_sensitive(intent) ==
    LET intent_lower == IF intent # "" THEN intent ELSE "default" IN
    IF intent_lower \in DOMAIN RULES THEN RULES[intent_lower]
    ELSE RULES["default"]

get_ttl(intent) ==
    LET intent_lower == IF intent # "" THEN Lower(intent) ELSE "default" IN
    IF intent_lower \in DOMAIN RULES THEN RULES[intent_lower]
    ELSE RULES["default"]

should_cache_always(intent) == get_ttl(intent) >= 0

should_cache(intent) == get_ttl(intent) > 0

(***************************************************************************)
(* services/cache_manager.py: CacheInvalidator                             *)
(***************************************************************************)
\* datetime.now().strftime("%Y-%m-%d"): the calendar day of a clock value
DateOf(t) == t \div Day

\* datetime.now().hour
HourOf(t) == (t % Day) \div Hour

DateChangedNever(intent, cached_date, current_date) == FALSE

\* RULE 1: time-sensitive content, the date changed
DateChanged(intent, cached_date, current_date) ==
    /\ intent \in {"events", "deals", "news"}
    /\ cached_date # current_date

AreaChangedNever(intent, cached_area, current_area) == FALSE

\* RULE 2: location-dependent content, the user's area changed
AreaChanged(intent, cached_area, current_area) ==
    /\ intent \in {"weather", "traffic", "food", "shopping"}
    /\ current_area # ""
    /\ cached_area # current_area

\* RULE 3: weather more than half an hour old (hours_old = age / 3600 > 0.5)
WeatherStale(intent, age) ==
    /\ intent = "weather"
    /\ age > Secs(1800)

\* RULE 4: traffic more than 5 minutes old in a peak hour
\* (minutes_old = age / 60 > 5)
PeakTraffic(intent, age, current_hour) ==
    /\ intent = "traffic"
    /\ (8 <= current_hour /\ current_hour <= 10)
          \/ (17 <= current_hour /\ current_hour <= 20)
    /\ age > Secs(300)

\* The age fields that get writes into the entry's metadata (age_seconds,
\* minutes_old, hours_old) are recomputed by every get before anything reads
\* them, so they are passed as age and not kept in the entry.
\* metadata: the entry's metadata; age: its age in ticks; t: the clock;
\* area: st.session_state.get("selected_area", "")
should_invalidate(metadata, age, t, area) ==
    \/ DateChanged(metadata.intent, metadata.date, DateOf(t))
    \/ AreaChanged(metadata.intent, metadata.area, area)
    \/ WeatherStale(metadata.intent, age)
    \/ PeakTraffic(metadata.intent, age, HourOf(t))

(***************************************************************************)
(* services/cache_manager.py: ResponseCache                                *)
(***************************************************************************)
\* _cleanup_if_needed(max_entries = 100): the source's default is 100; the
\* model scales it down so that the store can be filled.
max_entries == 2

Keys == 1..(max_entries + 1)

MaxSets == 3            \* calls of set in one behaviour
MaxGets == 2            \* calls of get in one behaviour
MaxCacheAdvances == 2   \* clock advances in one behaviour of the cache

\* Optional[...] values: Absent is Python's None, Some(v) a value
Absent == <<>>

Some(v) == <<v>>

\* What the callers of one behaviour pass and how the clock moves: the
\* intents and keys in use, the clock steps (in ticks), the time of day at
\* the start, the areas the user can select and the custom TTLs given to set
\* (Absent: none given).
Scenarios ==
    { [intents |-> {"monuments"},
       keys |-> Keys,
       deltas |-> {1},
       start |-> 0,
       areas |-> {""},
       ttls |-> {Absent}],
      [intents |-> {"monuments", "weather"},
       keys |-> {1},
       deltas |-> {1, Secs(600), Secs(1800)},
       start |-> 0,
       areas |-> {"", "Gachibowli", "Kukatpally"},
       ttls |-> {Absent}],
      [intents |-> {"news", "deals"},
       keys |-> {1},
       deltas |-> {1, Secs(600), Secs(3600)},
       start |-> Secs(85800),
       areas |-> {""},
       ttls |-> {Absent}],
      [intents |-> {"News", "Deals"},
       keys |-> {1},
       deltas |-> {1, Secs(600)},
       start |-> Secs(85800),
       areas |-> {""},
       ttls |-> {Absent}],
      [intents |-> {"traffic", ""},
       keys |-> {1},
       deltas |-> {1, Secs(300), Secs(600)},
       start |-> Secs(28500),
       areas |-> {"", "Gachibowli"},
       ttls |-> {Absent}],
      [intents |-> {"traffic", "gossip"},
       keys |-> {1},
       deltas |-> {Secs(360)},
       start |-> Secs(39000),
       areas |-> {""},
       ttls |-> {Absent}],
      [intents |-> {"chat"},
       keys |-> {1},
       deltas |-> {Secs(120), Secs(400)},
       start |-> 0,
       areas |-> {""},
       ttls |-> {Absent, Some(60), Some(900)}] }

\* position of cache_key in the dict, 0 when it is not a key
IndexOf(cache, k) ==
    IF \E i \in 1..Len(cache) : cache[i].key = k
    THEN CHOOSE i \in 1..Len(cache) : cache[i].key = k
    ELSE 0

\* del cache[cache_key]
RemoveNothing(cache, k) == cache

Remove(cache, k) == SelectSeq(cache, LAMBDA e : e.key # k)

\* cache[cache_key] = entry: a key already in the dict keeps its position
Put(cache, entry) ==
    LET i == IndexOf(cache, entry.key) IN
    IF i = 0 THEN Append(cache, entry) ELSE [cache EXCEPT ![i] = entry]

\* int(age_seconds): whole seconds of an age in ticks
AgeSeconds(age) == age \div TicksPerSecond

\* metadata["age_seconds"] > ttl
Expired(age, ttl) == AgeSeconds(age) > ttl

\* sorted(..., key = timestamp, reverse = True) is stable: entries with the
\* same timestamp keep the order they have in the dict.
RECURSIVE InsertNewestFirst(_, _)
InsertNewestFirst(sorted, e) ==
    IF sorted = <<>> THEN <<e>>
    ELSE IF Head(sorted).timestamp >= e.timestamp
    THEN <<Head(sorted)>> \o InsertNewestFirst(Tail(sorted), e)
    ELSE <<e>> \o sorted

RECURSIVE SortedNewestFirst(_)
SortedNewestFirst(cache) ==
    IF cache = <<>> THEN <<>>
    ELSE InsertNewestFirst(SortedNewestFirst(SubSeq(cache, 1, Len(cache) - 1)),
                           cache[Len(cache)])

_cleanup_if_needed(cache, limit) ==
    IF Len(cache) <= limit THEN cache
    ELSE SubSeq(SortedNewestFirst(cache), 1, limit)

\* cache_metadata.update(metadata): the caller's metadata wins
Merge(base, extra) ==
    [f \in DOMAIN base |-> IF f \in DOMAIN extra THEN extra[f] ELSE base[f]]

\* What get decides for the entry it found: "invalidated", "expired", "hit"
Verdict(entry, intent, t, area) ==
    LET age == t - entry.timestamp
        ttl == get_ttl(IF intent # "" THEN intent ELSE entry.metadata.intent)
    IN  IF should_invalidate(entry.metadata, age, t, area) THEN "invalidated"
        ELSE IF Expired(age, ttl) THEN "expired"
        ELSE "hit"

ResponseCache_get(k, intent) ==
    /\ cache_stats.hits + cache_stats.misses < MaxGets
    /\ LET i == IndexOf(response_cache, k) IN
       IF i = 0
       THEN /\ cache_stats' = [cache_stats EXCEPT !.misses = @ + 1]
            /\ last' = [op |-> "get", key |-> k, intent |-> intent,
                        found |-> Absent, ret |-> Absent]
            /\ UNCHANGED response_cache
       ELSE LET entry == response_cache[i]
                verdict == Verdict(entry, intent, now, selected_area)
            IN  CASE verdict = "invalidated" ->
                       /\ response_cache' = Remove(response_cache, k)
                       /\ cache_stats' =
                              [cache_stats EXCEPT !.invalidations = @ + 1,
                                                  !.misses = @ + 1]
                       /\ last' = [op |-> "get", key |-> k, intent |-> intent,
                                   found |-> Some(entry), ret |-> Absent]
                  [] verdict = "expired" ->
                       /\ response_cache' = Remove(response_cache, k)
                       /\ cache_stats' = [cache_stats EXCEPT !.misses = @ + 1]
                       /\ last' = [op |-> "get", key |-> k, intent |-> intent,
                                   found |-> Some(entry), ret |-> Absent]
                  [] OTHER ->
                       /\ cache_stats' = [cache_stats EXCEPT !.hits = @ + 1]
                       /\ last' = [op |-> "get", key |-> k, intent |-> intent,
                                   found |-> Some(entry),
                                   ret |-> Some(entry.response)]
                       /\ UNCHANGED response_cache
    /\ UNCHANGED <<now, advances, selected_area, scenario, writes, rlVars,
                   backupVars>>

get(k, intent) ==
    ResponseCache_get(k, intent) /\ UNCHANGED sessionVars

\* ttl: the optional custom TTL (Absent when not given); metadata: the
\* optional additional metadata (the empty function when not given)
ResponseCache_set(k, response, intent, ttl, metadata) ==
    /\ IF ~should_cache(intent)
       THEN UNCHANGED response_cache
       ELSE LET cache_metadata ==
                    Merge([date |-> DateOf(now),
                           area |-> selected_area,
                           intent |-> intent,
                           ttl |-> IF ttl = Absent \/ ttl = Some(0)
                                   THEN get_ttl(intent) ELSE ttl[1]],
                          metadata)
                entry == [key |-> k, response |-> response,
                          timestamp |-> now, metadata |-> cache_metadata]
            IN  response_cache' =
                    _cleanup_if_needed(Put(response_cache, entry), max_entries)
    /\ last' = [op |-> "set", key |-> k, intent |-> intent,
                value |-> response, ret |-> Absent]
    /\ writes' = writes + 1
    /\ UNCHANGED <<now, advances, cache_stats, selected_area, scenario,
                   rlVars, backupVars>>

set(k, response, intent, ttl, metadata) ==
    /\ ResponseCache_set(k, response, intent, ttl, metadata)
    /\ UNCHANGED sessionVars

RECURSIVE SumTTL(_)
\* sum(ttls) over entry['metadata'].get('ttl', 0) of the entries
SumTTL(cache) ==
    IF cache = <<>> THEN 0 ELSE Head(cache).metadata.ttl + SumTTL(Tail(cache))

\* A float quotient is kept exact as <<numerator, denominator>>.
hit_rate_fraction(hits, total_queries) ==
    IF total_queries > 0 THEN <<hits, total_queries>> ELSE <<0, 1>>

\* stats['hits'] / stats['total_queries'] * 100 if total_queries > 0 else 0
hit_rate(hits, total_queries) ==
    IF total_queries > 0 THEN <<hits * 100, total_queries>> ELSE <<0, 1>>

\* get_stats works on a copy of st.session_state.cache_stats (whose own
\* total_queries field stays 0 and is overwritten in the copy).
ResponseCache_get_stats ==
    /\ LET total_queries == cache_stats.hits + cache_stats.misses IN
       last' = [op |-> "get_stats", key |-> None,
                ret |-> [hits |-> cache_stats.hits,
                         misses |-> cache_stats.misses,
                         invalidations |-> cache_stats.invalidations,
                         total_queries |-> total_queries,
                         hit_rate |-> hit_rate(cache_stats.hits,
                                               total_queries),
                         cache_size |-> Len(response_cache),
                         avg_ttl |-> IF response_cache # <<>>
                                     THEN <<SumTTL(response_cache),
                                            Len(response_cache)>>
                                     ELSE <<0, 1>>]]
    /\ UNCHANGED <<now, advances, response_cache, cache_stats, selected_area,
                   scenario, writes, rlVars, backupVars>>

get_stats == ResponseCache_get_stats /\ UNCHANGED sessionVars

\* the user picks another area in the sidebar
SelectArea(a) ==
    /\ a \in scenario.areas
    /\ a # selected_area
    /\ selected_area' = a
    /\ last' = [op |-> "select_area", key |-> None, ret |-> None]
    /\ UNCHANGED <<now, advances, response_cache, cache_stats, scenario, writes,
                   rlVars, backupVars,
                   sessionVars>>

\* time.time() and datetime.now() move on between two calls
TickCache ==
    /\ advances < MaxCacheAdvances
    /\ \E d \in scenario.deltas : now' = now + d
    /\ advances' = advances + 1
    /\ last' = [op |-> "tick", key |-> None, ret |-> None]
    /\ UNCHANGED <<rlVars, backupVars, cacheVars>>

\* the state after ResponseCache.__init__, for a behaviour of one of the
\* scenarios scs
InitCacheIn(scs) ==
    /\ \E sc \in scs :
          /\ scenario = sc
          /\ now = sc.start
    /\ advances = 0
    /\ last = [op |-> "init", key |-> None, ret |-> None]
    /\ response_cache = <<>>
    /\ cache_stats = [hits |-> 0, misses |-> 0, invalidations |-> 0]
    /\ selected_area = ""
    /\ writes = 0
    /\ _cache = "ResponseCache"
    /\ session_state = [s \in Sessions |->
                           IF s = Creator THEN CacheKeys ELSE {}]
    /\ InitLimiter
    /\ InitBackup

InitCache == InitCacheIn(Scenarios)

NextCache ==
    \/ TickCache
    \/ \E a \in {"", "Gachibowli", "Kukatpally"} : SelectArea(a)
    \/ \E k \in scenario.keys, intent \in scenario.intents : get(k, intent)
    \/ \E k \in scenario.keys, intent \in scenario.intents,
          ttl \in scenario.ttls :
          /\ writes < MaxSets
          /\ set(k, writes + 1, intent, ttl, <<>>)
    \/ get_stats

SpecCache == InitCache /\ [][NextCache]_vars

(***************************************************************************)
(* services/cache_manager.py: ResponseCache.clear and clear_by_intent      *)
(***************************************************************************)
\* st.session_state.response_cache = {}
clear ==
    /\ response_cache' = <<>>
    /\ last' = [op |-> "clear", key |-> None, ret |-> None]
    /\ UNCHANGED <<now, advances, cache_stats, selected_area, scenario, writes,
                   rlVars, backupVars,
                   sessionVars>>

KeptByIntentLower(cache, intent) ==
    SelectSeq(cache, LAMBDA e : Lower(e.metadata.intent) # Lower(intent))

\* what is left after del cache[key] for every key whose entry has
\* metadata intent == intent
KeptByIntent(cache, intent) ==
    SelectSeq(cache, LAMBDA e : e.metadata.intent # intent)

clear_by_intent(intent) ==
    /\ response_cache' = KeptByIntent(response_cache, intent)
    /\ last' = [op |-> "clear_by_intent", key |-> None, intent |-> intent,
                removed |-> Len(response_cache) - Len(response_cache'),
                ret |-> None]
    /\ UNCHANGED <<now, advances, cache_stats, selected_area, scenario, writes,
                   rlVars, backupVars,
                   sessionVars>>

\* the callers of the behaviours that clear the store
ClearScenarios ==
    { [intents |-> {"monuments", "weather", "Weather"},
       keys |-> {1, 2},
       deltas |-> {Secs(600)},
       start |-> 0,
       areas |-> {""},
       ttls |-> {Absent}] }

InitClear == InitCacheIn(ClearScenarios)

NextClear ==
    \/ TickCache
    \/ \E k \in scenario.keys, intent \in scenario.intents : get(k, intent)
    \/ \E k \in scenario.keys, intent \in scenario.intents :
          /\ writes < MaxSets
          /\ set(k, writes + 1, intent, Absent, <<>>)
    \/ clear
    \/ \E intent \in scenario.intents : clear_by_intent(intent)

SpecClear == InitClear /\ [][NextClear]_vars

(***************************************************************************)
(* SmartTTL on its own: get_ttl and should_cache applied to category names *)
(* in any letter case, to an unknown name and to the empty string.         *)
(***************************************************************************)
Categories == DOMAIN RULES \cup DOMAIN LowerCased \cup {"", "gossip"}

SmartTTL_get_ttl(intent) ==
    /\ last' = [op |-> "get_ttl", intent |-> intent, ret |-> get_ttl(intent)]
    /\ UNCHANGED <<now, advances, rlVars, backupVars, cacheVars>>

SmartTTL_should_cache(intent) ==
    /\ last' = [op |-> "should_cache", intent |-> intent,
                ret |-> should_cache(intent)]
    /\ UNCHANGED <<now, advances, rlVars, backupVars, cacheVars>>

InitTTL == InitClock /\ InitLimiter /\ InitBackup /\ InitCacheIdle

NextTTL ==
    \/ \E intent \in Categories : SmartTTL_get_ttl(intent)
    \/ \E intent \in Categories : SmartTTL_should_cache(intent)

SpecTTL == InitTTL /\ [][NextTTL]_vars

(***************************************************************************)
(* generate_cache_key.  Strings are sequences of characters, so that       *)
(* lower(), strip() and the "|" of the composite act on what they act on   *)
(* in the program.  The digest is kept as the string it was taken of: MD5  *)
(* is taken to be free of collisions.                                      *)
(***************************************************************************)
Chars == {"a", "A", " ", "|"}

MaxQueryLen == 2

Strings(n) == UNION {[1..m -> Chars] : m \in 0..n}

Queries == Strings(MaxQueryLen)

Languages == {<<>>, <<"a">>, <<"A">>, <<"|">>}

Locations == {<<>>, <<"a">>, <<"|">>}

LowerChar(c) == IF c = "A" THEN "a" ELSE c

lower(s) == [i \in 1..Len(s) |-> LowerChar(s[i])]

RECURSIVE lstrip(_)
lstrip(s) == IF s # <<>> /\ s[1] = " " THEN lstrip(Tail(s)) ELSE s

RECURSIVE rstrip(_)
rstrip(s) ==
    IF s # <<>> /\ s[Len(s)] = " " THEN rstrip(SubSeq(s, 1, Len(s) - 1))
    ELSE s

strip(s) == rstrip(lstrip(s))

normalized(query) == strip(lower(query))

composite_without_language(query, language, location) ==
    normalized(query) \o <<"|">> \o location

composite(query, language, location) ==
    normalized(query) \o <<"|">> \o language \o <<"|">> \o location

md5(s) == [hexdigest |-> s]

\* `call` tells one call from the next one with the same arguments
generate_cache_key(query, language, location) ==
    /\ last' = [op |-> "generate_cache_key", query |-> query,
                language |-> language, location |-> location,
                ret |-> md5(composite(query, language, location)),
                call |-> IF last.op = "generate_cache_key"
                         THEN 1 - last.call ELSE 1]
    /\ UNCHANGED <<now, advances, rlVars, backupVars, cacheVars>>

InitKey == InitClock /\ InitLimiter /\ InitBackup /\ InitCacheIdle

NextKey ==
    \E query \in Queries, language \in Languages, location \in Locations :
       generate_cache_key(query, language, location)

SpecKey == InitKey /\ [][NextKey]_vars

(***************************************************************************)
(* The smart_cache decorator: wrapper(query, *args, **kwargs) of a         *)
(* decorated function.  A decorated function is its name with the intent   *)
(* and ttl given to the decorator; what it returns is a record of the      *)
(* arguments it was called with.                                           *)
(***************************************************************************)
Decorated ==
    { [name |-> <<"f">>, intent |-> "weather", ttl |-> Absent],
      [name |-> <<"g">>, intent |-> "chat", ttl |-> Some(60)] }

DecoratedQueries == {<<"a">>, <<"A">>, <<"b">>}

DecoratedArgs == {1, 2}

\* func(query, *args, **kwargs)
ResultOf(func, query, arg) ==
    [func |-> func.name, query |-> query, arg |-> arg]

\* generate_cache_key(f"{func.__name__}:{query}"), language and location
\* left at their defaults
WrapperKey(func, query) ==
    md5(composite(func.name \o <<":">> \o query, <<"e", "n">>, <<>>))

wrapper(func, query, arg) ==
    /\ cache_stats.hits + cache_stats.misses < MaxGets
    /\ LET cache_key == WrapperKey(func, query)
           i == IndexOf(response_cache, cache_key)
           verdict == IF i = 0 THEN "absent"
                      ELSE Verdict(response_cache[i], func.intent, now,
                                   selected_area)
       IN  IF verdict = "hit"
           THEN /\ cache_stats' = [cache_stats EXCEPT !.hits = @ + 1]
                /\ last' = [op |-> "wrapper", func |-> func.name,
                            query |-> query, arg |-> arg, invoked |-> FALSE,
                            ret |-> response_cache[i].response]
                /\ UNCHANGED <<response_cache, writes>>
           ELSE LET after_get == IF verdict = "absent" THEN response_cache
                                 ELSE Remove(response_cache, cache_key)
                    result == ResultOf(func, query, arg)
                    entry ==
                      [key |-> cache_key, response |-> result,
                       timestamp |-> now,
                       metadata |->
                         [date |-> DateOf(now), area |-> selected_area,
                          intent |-> func.intent,
                          ttl |-> IF func.ttl = Absent \/ func.ttl = Some(0)
                                  THEN get_ttl(func.intent)
                                  ELSE func.ttl[1]]]
                IN  /\ cache_stats' =
                          [cache_stats EXCEPT
                             !.misses = @ + 1,
                             !.invalidations =
                                 IF verdict = "invalidated" THEN @ + 1 ELSE @]
                    /\ response_cache' =
                          IF should_cache(func.intent)
                          THEN _cleanup_if_needed(Put(after_get, entry),
                                                  max_entries)
                          ELSE after_get
                    /\ writes' = writes + 1
                    /\ last' = [op |-> "wrapper", func |-> func.name,
                                query |-> query, arg |-> arg,
                                invoked |-> TRUE, ret |-> result]
    /\ UNCHANGED <<now, advances, selected_area, scenario, rlVars, backupVars,
                   sessionVars>>

DecoratorScenarios ==
    { [intents |-> {"weather", "chat"}, keys |-> {1},
       deltas |-> {Secs(30), Secs(300)}, start |-> 0, areas |-> {""},
       ttls |-> {Absent}] }

InitDecorator == InitCacheIn(DecoratorScenarios)

NextDecorator ==
    \/ TickCache
    \/ \E func \in Decorated, query \in DecoratedQueries,
          arg \in DecoratedArgs : wrapper(func, query, arg)

SpecDecorator == InitDecorator /\ [][NextDecorator]_vars

(***************************************************************************)
(* The convenience functions, called from any browser session.  get_cache  *)
(* constructs the ResponseCache on the first call only, and the            *)
(* constructor puts response_cache and cache_stats into the session state  *)
(* of the session it runs in.  No other code puts them there, so           *)
(* response_cache and cache_stats above are the store of that one session; *)
(* reading st.session_state.response_cache or .cache_stats in a session    *)
(* without the key raises AttributeError.                                  *)
(***************************************************************************)
SessionQueries == {<<"a">>, <<"b">>}

\* st.session_state of every session after get_cache() has run in session s
AfterGetCache(s) ==
    IF _cache = None THEN [session_state EXCEPT ![s] = @ \cup CacheKeys]
    ELSE session_state

get_cache(s) ==
    /\ _cache' = "ResponseCache"
    /\ session_state' = AfterGetCache(s)

Raise(op, s, error) ==
    /\ last' = [op |-> op, session |-> s, key |-> None, ret |-> Absent,
                raised |-> error]
    /\ UNCHANGED <<now, advances, response_cache, cache_stats, selected_area,
                   scenario, rlVars, backupVars>>

cached_response(s, query, intent) ==
    /\ get_cache(s)
    /\ IF "response_cache" \in AfterGetCache(s)[s]
       THEN ResponseCache_get(md5(composite(query, <<"e", "n">>, <<>>)),
                              intent)
       ELSE Raise("cached_response", s, "AttributeError") /\ UNCHANGED writes

cache_response(s, query, response, intent) ==
    /\ get_cache(s)
    /\ IF "response_cache" \in AfterGetCache(s)[s] \/ ~should_cache(intent)
       THEN ResponseCache_set(md5(composite(query, <<"e", "n">>, <<>>)),
                              response, intent, Absent, <<>>)
       ELSE Raise("cache_response", s, "AttributeError")
            /\ writes' = writes + 1

get_cache_stats(s) ==
    /\ get_cache(s)
    /\ IF "cache_stats" \in AfterGetCache(s)[s]
       THEN ResponseCache_get_stats
       ELSE Raise("get_cache_stats", s, "AttributeError") /\ UNCHANGED writes

SessionScenarios ==
    { [intents |-> {"monuments", "deals"}, keys |-> {1}, deltas |-> {1},
       start |-> 0, areas |-> {""}, ttls |-> {Absent}] }

\* the module just imported: no instance yet, no session holds the keys
InitSessions ==
    /\ \E sc \in SessionScenarios :
          /\ scenario = sc
          /\ now = sc.start
    /\ advances = 0
    /\ last = [op |-> "init", key |-> None, ret |-> None]
    /\ response_cache = <<>>
    /\ cache_stats = [hits |-> 0, misses |-> 0, invalidations |-> 0]
    /\ selected_area = ""
    /\ writes = 0
    /\ _cache = None
    /\ session_state = [s \in Sessions |-> {}]
    /\ InitLimiter
    /\ InitBackup

NextSessions ==
    \/ \E s \in Sessions, query \in SessionQueries,
          intent \in scenario.intents : cached_response(s, query, intent)
    \/ \E s \in Sessions, query \in SessionQueries,
          intent \in scenario.intents :
          /\ writes < MaxSets
          /\ cache_response(s, query, writes + 1, intent)
    \/ \E s \in Sessions : get_cache_stats(s)

SpecSessions == InitSessions /\ [][NextSessions]_vars

InitRL == InitClock /\ InitLimiter /\ InitBackup /\ InitCacheIdle

NextRL ==
    \/ TickRL
    \/ \E u \in Users : is_allowed(u)
    \/ \E u \in Users : get_retry_after(u)
    \/ \E u \in Users : get_remaining_requests(u)
    \/ \E valid \in BOOLEAN : validate_and_rate_limit(valid)

SpecRL == InitRL /\ [][NextRL]_vars

(***************************************************************************)
(* Claims about the single-window limiter, under SpecRL.                   *)
(***************************************************************************)
UserCalls(u) == SelectSeq(calls, LAMBDA c : c[1] = u)

\* C1: counted from an identity without history, each of the first
\* max_requests is_allowed calls that falls inside the window opened by the
\* first call is allowed, and call number max_requests + 1 inside that same
\* window is rejected.
C1_Boundary ==
    \A u \in Users :
        LET cs == UserCalls(u) IN
        \A i \in 1..Len(cs) :
            (i <= max_requests + 1 /\ cs[i][2] - cs[1][2] < Window)
                => (cs[i][3] = (i <= max_requests))

C1_Witness ==
    \E u \in Users :
        LET cs == UserCalls(u) IN
        /\ Len(cs) > max_requests
        /\ cs[max_requests + 1][2] - cs[1][2] < Window
        /\ cs[max_requests + 1][3] = FALSE
        /\ \A i \in 1..max_requests : cs[i][3] = TRUE

WasRejected(u) == \E i \in 1..Len(calls) : calls[i][1] = u /\ calls[i][3] = FALSE

\* C2: when an identity has been rejected before and the clock stands more
\* than window_seconds past the oldest timestamp held for it, an is_allowed
\* call for that identity returns True.
C2_Recovery ==
    [][\A u \in Users :
          ( /\ last'.op = "is_allowed"
            /\ last'.user = u
            /\ WasRejected(u)
            /\ u \in DOMAIN requests
            /\ requests[u] # <<>>
            /\ now > SeqMin(requests[u]) + Window )
          => last'.ret = TRUE]_vars

C2_Witness ==
    /\ last.op = "is_allowed"
    /\ last.ret = TRUE
    /\ LET cs == UserCalls(last.user) IN
       \E i \in 1..Len(cs) :
           /\ cs[i][3] = FALSE
           /\ cs[i][2] - cs[1][2] < Window
           /\ cs[Len(cs)][2] > cs[1][2] + Window
           /\ i < Len(cs)

(***************************************************************************)
(* Claims about the check/record limiter, under SpecRace.                  *)
(***************************************************************************)
CountNewer(horizon) ==
    Len(KeepNewer(DefaultGet(rate_limit_data, Session)[Session], now - horizon))

\* the session's window holds more timestamps than one of the limits allows
OverLimit ==
    \/ CountNewer(Minute) > REQUESTS_PER_MINUTE
    \/ CountNewer(Hour) > REQUESTS_PER_HOUR
    \/ CountNewer(Day) > REQUESTS_PER_DAY

\* C3: a state in which the window holds more timestamps than a limit allows
\* is reached only by behaviours in which one request passed its check while
\* another stood between its check and its record; behaviours whose requests
\* run check and record one after the other never reach it.  (That such a
\* state is reached at all is C3_Witness.)
C3_RaceOnly == OverLimit => overlap

C3_Witness == OverLimit /\ overlap /\ \A t \in Threads : pc[t] = "idle"

(***************************************************************************)
(* Claims about the response cache, under SpecCache.  last is the most     *)
(* recent event, so in a state whose last.op is "get" the clock and the    *)
(* selected area are those the call saw.                                   *)
(***************************************************************************)
Has(cache, k) == IndexOf(cache, k) # 0

GetStep == last'.op = "get" /\ cache_stats' # cache_stats

SetStep == last'.op = "set" /\ writes' = writes + 1

Counted(hits, misses, invalidations) ==
    /\ cache_stats'.hits = cache_stats.hits + hits
    /\ cache_stats'.misses = cache_stats.misses + misses
    /\ cache_stats'.invalidations = cache_stats.invalidations + invalidations

\* C4: a get(k, category) that directly follows set(k, v, category) with a
\* cacheable category returns v.  (No clock step and no change of area lies
\* between the two calls, so the entry's age is 0 and no rule can fire.)
C4_RoundTrip ==
    [][( /\ last.op = "set"
         /\ get_ttl(last.intent) > 0
         /\ GetStep
         /\ last'.key = last.key
         /\ last'.intent = last.intent )
       => last'.ret = Some(last.value)]_vars

MinOf(a, b) == IF a < b THEN a ELSE b

\* C5: a get(k, "weather") that finds an entry written as "weather" more than
\* min(TTL("weather"), 30 minutes) ago returns absent, adds one to the miss
\* counter and leaves the hit counter alone.
C5_Expiry ==
    [][( /\ GetStep
         /\ last'.intent = "weather"
         /\ last'.found # Absent
         /\ last'.found[1].metadata.intent = "weather"
         /\ now - last'.found[1].timestamp
               > MinOf(Secs(get_ttl("weather")), Secs(1800)) )
       => ( /\ last'.ret = Absent
            /\ cache_stats'.misses = cache_stats.misses + 1
            /\ cache_stats'.hits = cache_stats.hits )]_vars

\* C6: a get that returns absent leaves the key out of the store and adds one
\* to the miss counter only; a get that returns a value adds one to the hit
\* counter only and leaves the entry in the store.
C6_EagerRemoval ==
    [][GetStep =>
         IF last'.ret = Absent
         THEN /\ ~Has(response_cache', last'.key)
              /\ cache_stats'.misses = cache_stats.misses + 1
              /\ cache_stats'.hits = cache_stats.hits
         ELSE /\ Has(response_cache', last'.key)
              /\ last'.found # Absent
              /\ cache_stats'.hits = cache_stats.hits + 1
              /\ cache_stats'.misses = cache_stats.misses]_vars

\* get found the key, refused the entry and the entry is gone
C6_Witness ==
    /\ last.op = "get"
    /\ last.found # Absent
    /\ last.ret = Absent
    /\ ~Has(response_cache, last.key)
    /\ cache_stats.hits > 0

\* C7: set with a never-cache category (TTL 0) changes neither the store nor
\* the statistics, and a get of the same key that directly follows it returns
\* absent when the key was not in the store.
NeverCache(intent) == get_ttl(intent) = 0

C7_NeverCache ==
    [][ /\ (SetStep /\ NeverCache(last'.intent))
            => (response_cache' = response_cache /\ cache_stats' = cache_stats)
        /\ ( /\ last.op = "set"
             /\ NeverCache(last.intent)
             /\ ~Has(response_cache, last.key)
             /\ GetStep
             /\ last'.key = last.key )
            => last'.ret = Absent ]_vars

\* a never-cache set has acted on a store that holds an entry, after a get
C7_Witness ==
    /\ last.op = "set"
    /\ NeverCache(last.intent)
    /\ response_cache # <<>>
    /\ cache_stats.hits + cache_stats.misses > 0

Entries(cache) == {cache[i] : i \in 1..Len(cache)}

\* C8: after every set the store holds at most max_entries entries, and when
\* a set pushes the count above max_entries the store keeps exactly
\* max_entries entries, each with a creation timestamp at least that of every
\* discarded one and each written more recently than every discarded one
\* (responses are numbered in the order of the set calls).
C8_Bounded ==
    [][SetStep =>
         /\ Len(response_cache') <= max_entries
         /\ ( /\ get_ttl(last'.intent) > 0
              /\ Len(response_cache) = max_entries
              /\ ~Has(response_cache, last'.key) )
            => /\ Len(response_cache') = max_entries
               /\ \A kept \in Entries(response_cache') :
                     \A old \in Entries(response_cache) :
                        ~Has(response_cache', old.key)
                          => /\ kept.timestamp >= old.timestamp
                             /\ kept.response > old.response
               /\ Has(response_cache', last'.key)]_vars

\* C9: a get with the category the entry was written under (or with none)
\* returns the stored value exactly when the entry's age is at most the TTL
\* of that category and no invalidation rule fires.
C9_Usable ==
    ( /\ last.op = "get"
      /\ last.found # Absent
      /\ last.intent \in {"", last.found[1].metadata.intent} )
    => LET entry == last.found[1]
           age == now - entry.timestamp
       IN  (last.ret # Absent)
             <=> ( /\ age <= Secs(get_ttl(entry.metadata.intent))
                   /\ ~should_invalidate(entry.metadata, age, now,
                                         selected_area) )

DateSensitive == {"events", "deals", "news"}

\* C10: a get that finds an entry written as events, deals or news (these
\* names as written: rule 1 does not lower-case) on another calendar day
\* than today returns absent, removes the entry and counts one
\* invalidation and one miss, whatever the entry's age.
C10_DateRollover ==
    [][( /\ GetStep
         /\ last'.found # Absent
         /\ last'.found[1].metadata.intent \in DateSensitive
         /\ last'.found[1].metadata.date # DateOf(now) )
       => ( /\ last'.ret = Absent
            /\ ~Has(response_cache', last'.key)
            /\ Counted(0, 1, 1) )]_vars

\* a news entry younger than its TTL was refused after midnight
C10_Witness ==
    /\ last.op = "get"
    /\ last.found # Absent
    /\ last.found[1].metadata.intent = "news"
    /\ last.found[1].metadata.date # DateOf(now)
    /\ now - last.found[1].timestamp < Secs(get_ttl("news"))
    /\ last.ret = Absent
    /\ cache_stats.invalidations = 1

(***************************************************************************)
(* Claims about the smart invalidation rules, under SpecCache.             *)
(***************************************************************************)
LocationSensitive == {"weather", "traffic", "food", "shopping"}

\* C11: a get that finds an entry written as weather, traffic, food or
\* shopping while the selected area is non-empty and differs from the area
\* stored with the entry returns absent and removes the entry, whatever the
\* entry's age; when the selected area is empty or equal to the stored one,
\* the entry is within the TTL of its category and neither the weather rule
\* nor the peak-hour rule fires, a get with the entry's category (or none)
\* returns the stored value.
C11_LocationDrift ==
    [][( /\ GetStep
         /\ last'.found # Absent
         /\ last'.found[1].metadata.intent \in LocationSensitive )
       => LET entry == last'.found[1]
              age == now - entry.timestamp
              drifted == selected_area # ""
                            /\ selected_area # entry.metadata.area
          IN  /\ drifted => ( /\ last'.ret = Absent
                              /\ ~Has(response_cache', last'.key)
                              /\ Counted(0, 1, 1) )
              /\ ( /\ ~drifted
                   /\ last'.intent \in {"", entry.metadata.intent}
                   /\ age <= Secs(get_ttl(entry.metadata.intent))
                   /\ ~WeatherStale(entry.metadata.intent, age)
                   /\ ~PeakTraffic(entry.metadata.intent, age, HourOf(now)) )
                 => last'.ret = Some(entry.response)]_vars

\* a weather entry written in Gachibowli and younger than its TTL was refused
\* to a caller now in Kukatpally
C11_Witness ==
    /\ last.op = "get"
    /\ last.found # Absent
    /\ last.found[1].metadata.intent = "weather"
    /\ last.found[1].metadata.area = "Gachibowli"
    /\ selected_area = "Kukatpally"
    /\ now - last.found[1].timestamp < Secs(get_ttl("weather"))
    /\ last.ret = Absent
    /\ cache_stats.invalidations = 1

\* the time of day of a clock value, in ticks since midnight
TimeOfDay(t) == t % Day

\* 08:00-10:00 and 17:00-20:00
InPeakWindow(t) ==
    \/ Secs(8 * 3600) <= TimeOfDay(t) /\ TimeOfDay(t) <= Secs(10 * 3600)
    \/ Secs(17 * 3600) <= TimeOfDay(t) /\ TimeOfDay(t) <= Secs(20 * 3600)

\* C12: a get that finds an entry written as traffic more than 5 minutes ago
\* returns absent and counts an invalidation when the time of day lies in
\* 08:00-10:00 or 17:00-20:00; outside those windows, with the entry within
\* its TTL and the area unchanged, a get with the entry's category (or none)
\* returns the stored value.
C12_PeakHours ==
    [][( /\ GetStep
         /\ last'.found # Absent
         /\ last'.found[1].metadata.intent = "traffic"
         /\ now - last'.found[1].timestamp > Secs(300) )
       => LET entry == last'.found[1]
              age == now - entry.timestamp
          IN  /\ InPeakWindow(now) => ( /\ last'.ret = Absent
                                        /\ Counted(0, 1, 1) )
              /\ ( /\ ~InPeakWindow(now)
                   /\ last'.intent \in {"", "traffic"}
                   /\ age <= Secs(get_ttl("traffic"))
                   /\ ~AreaChanged("traffic", entry.metadata.area,
                                   selected_area) )
                 => last'.ret = Some(entry.response)]_vars

(***************************************************************************)
(* Claims about retry_after, remaining and pruning, under SpecRL.          *)
(***************************************************************************)
Recorded(u) == IF u \in DOMAIN requests THEN requests[u] ELSE <<>>

\* seconds is the whole number of seconds in ticks (a duration, floored at 0)
WholeSecondsOf(seconds, ticks) ==
    IF ticks <= 0 THEN seconds = 0
    ELSE /\ seconds * TicksPerSecond <= ticks
         /\ ticks < (seconds + 1) * TicksPerSecond

\* C13: get_retry_after returns, in whole seconds (its result is an int),
\* oldest + window_seconds - now over the identity's recorded timestamps,
\* floored at 0 and never negative; 0 for an identity without recorded
\* requests; and directly after a rejected is_allowed call the oldest
\* timestamp lies in the window and the result is the whole seconds of
\* window_seconds minus that timestamp's age.
C13_RetryAfter ==
    [][last'.op = "get_retry_after" =>
         LET u == last'.user
             recorded == Recorded(u)
         IN  /\ last'.ret >= 0
             /\ recorded = <<>> => last'.ret = 0
             /\ recorded # <<>> =>
                   WholeSecondsOf(last'.ret, SeqMin(recorded) + Window - now)
             /\ (last.op = "is_allowed" /\ last.user = u /\ last.ret = FALSE)
                   => /\ recorded # <<>>
                      /\ now - SeqMin(recorded) < Window
                      /\ WholeSecondsOf(last'.ret,
                                        Window - (now - SeqMin(recorded)))
                      /\ last'.ret * TicksPerSecond <= Window]_vars

\* retry_after was asked right after a rejection, half a second into the
\* window: 1.5 s remain and the result is 1
C13_Witness ==
    /\ last.op = "get_retry_after"
    /\ calls # <<>>
    /\ calls[Len(calls)] = <<last.user, now, FALSE>>
    /\ Recorded(last.user) # <<>>
    /\ (SeqMin(Recorded(last.user)) + Window - now) % TicksPerSecond # 0
    /\ last.ret = 1

\* C14: get_remaining_requests returns max_requests minus the number of the
\* identity's timestamps inside the window, floored at 0; for an identity
\* never seen before is_allowed returns True and get_remaining_requests
\* returns max_requests; and the remaining count that get_stats of the
\* check/record limiter reports for its shortest horizon is the per-minute
\* limit minus the timestamps of the last minute, floored at 0.
C14_Remaining ==
    [][ /\ last'.op = "get_remaining_requests" =>
             LET u == last'.user
                 in_window == Len(KeepNewer(Recorded(u), now - Window))
             IN  /\ last'.ret = Max0(max_requests - in_window)
                 /\ UserCalls(u) = <<>> => last'.ret = max_requests
        /\ (last'.op = "is_allowed" /\ UserCalls(last'.user) = <<>>)
              => last'.ret = TRUE
        /\ last'.op = "get_stats" =>
              last'.ret.remaining_minute
                 = Max0(REQUESTS_PER_MINUTE - CountNewer(Minute)) ]_vars

(***************************************************************************)
(* Claims about the three thresholds of the check/record limiter, under    *)
(* SpecRace.                                                               *)
(***************************************************************************)
\* the step is a run of check_rate_limit: it passed, or it rejected with the
\* message of one of the thresholds
CheckStep ==
    \/ last'.op = "check_rate_limit"
    \/ /\ last'.op = "validate_and_rate_limit"
       /\ last'.ret[2] \in {"minute", "hour", "day"}

\* C15: check_rate_limit allows the request exactly when the timestamps of
\* the last minute are below the per-minute limit, those of the last hour
\* below the per-hour limit and those of the last day below the per-day
\* limit (one history, each count over its own horizon), and a rejection
\* carries the message of the first threshold hit in the order minute, hour,
\* day.
C15_MultiWindow ==
    [][CheckStep =>
         LET minute_hit == CountNewer(Minute) >= REQUESTS_PER_MINUTE
             hour_hit == CountNewer(Hour) >= REQUESTS_PER_HOUR
             day_hit == CountNewer(Day) >= REQUESTS_PER_DAY
         IN  /\ last'.ret[1] = (~minute_hit /\ ~hour_hit /\ ~day_hit)
             /\ last'.ret[2] = IF minute_hit THEN "minute"
                               ELSE IF hour_hit THEN "hour"
                               ELSE IF day_hit THEN "day"
                               ELSE ""]_vars

\* a request was rejected with the per-minute message while the per-hour
\* limit was hit as well
C15_Witness ==
    /\ last.op = "validate_and_rate_limit"
    /\ last.ret = <<FALSE, "minute">>
    /\ CountNewer(Hour) >= REQUESTS_PER_HOUR

(***************************************************************************)
(* Pruning of the single-window limiter, under SpecRL.                     *)
(***************************************************************************)
InHorizon(u) ==
    \A i \in 1..Len(Recorded(u)) : Recorded(u)[i] > now - Window

\* C16: when is_allowed or get_remaining_requests has completed for an
\* identity, that identity's list holds only timestamps inside the window,
\* and the limiter's map holds no identity with an empty list.
C16_PrunedAndDisposed ==
    last.op \in {"is_allowed", "get_remaining_requests"}
        => /\ InHorizon(last.user)
           /\ \A u \in DOMAIN requests : requests[u] # <<>>

(***************************************************************************)
(* Claims about categories and TTLs of the response cache, under           *)
(* SpecCache.                                                              *)
(***************************************************************************)
\* the category is not a name of the TTL table
UnknownCategory(intent) == intent = "" \/ Lower(intent) \notin DOMAIN RULES

\* C17: a get that finds an entry whose category is not in the TTL table
\* (or is empty) treats the entry as expired and returns absent.
C17_UnknownIsExpired ==
    [][( /\ GetStep
         /\ last'.found # Absent
         /\ UnknownCategory(last'.found[1].metadata.intent) )
       => last'.ret = Absent]_vars

\* the entry was written with a custom TTL other than that of its category
CustomTTL(entry) == entry.metadata.ttl # get_ttl(entry.metadata.intent)

\* C18: a get that finds an entry written with a custom TTL T returns the
\* stored value when the entry's age is at most T and no invalidation rule
\* fires, and returns absent when the entry's age exceeds T.
C18_CustomTTL ==
    [][( /\ GetStep
         /\ last'.found # Absent
         /\ CustomTTL(last'.found[1]) )
       => LET entry == last'.found[1]
              age == now - entry.timestamp
          IN  /\ ( /\ age <= Secs(entry.metadata.ttl)
                   /\ ~should_invalidate(entry.metadata, age, now,
                                         selected_area) )
                 => last'.ret = Some(entry.response)
              /\ age > Secs(entry.metadata.ttl) => last'.ret = Absent]_vars

(***************************************************************************)
(* Claims about validate_and_rate_limit of services/security.py, under     *)
(* SpecRL.                                                                 *)
(***************************************************************************)
RecordedIn(reqs, u) == IF u \in DOMAIN reqs THEN reqs[u] ELSE <<>>

\* C19: validate_and_rate_limit raises nothing and returns a pair
\* (is_allowed, error_message): (False, validation error) with the limiter
\* untouched for text that fails validation, (False, rate-limit message) with
\* nothing recorded for an identity over its limit, and (True, "") with
\* exactly one timestamp recorded otherwise.
C19_ValidateAndLimit ==
    [][last'.op = "validate_and_rate_limit" =>
         /\ last'.raised = None
         /\ Len(last'.ret) = 2
         /\ last'.ret[1] \in BOOLEAN
         /\ last'.ret = <<FALSE, "invalid">> => requests' = requests
         /\ last'.ret[1] = FALSE =>
               \A u \in Users :
                  Len(RecordedIn(requests', u)) <= Len(Recorded(u))
         /\ last'.ret[1] = TRUE =>
               /\ last'.ret[2] = ""
               /\ \E u \in Users :
                     /\ RecordedIn(requests', u)
                           = Append(KeepNewer(Recorded(u), now - Window), now)
                     /\ \A o \in Users \ {u} :
                           RecordedIn(requests', o) = Recorded(o)]_vars

(***************************************************************************)
(* Claims about the statistics of the response cache, under SpecCache.     *)
(***************************************************************************)
\* What every step does to the counters and what get_stats reports, with
\* hit_rate = scale * hits / (hits + misses): a get adds one to exactly one
\* of hits and misses, to hits exactly when it returns a value; the
\* invalidation counter grows by one exactly when a rule removes the entry
\* the get found; no other call changes a counter; invalidations never
\* exceed misses; get_stats returns the counters, hit_rate (0 without
\* lookups) and the number of entries, and changes neither counters nor
\* entries.
StatsStep(scale) ==
    /\ last'.op = "get" =>
          LET ruled == /\ last'.found # Absent
                       /\ should_invalidate(last'.found[1].metadata,
                                            now - last'.found[1].timestamp,
                                            now, selected_area)
          IN  /\ IF last'.ret # Absent THEN Counted(1, 0, 0)
                 ELSE IF ruled THEN Counted(0, 1, 1)
                 ELSE Counted(0, 1, 0)
              /\ ruled => ~Has(response_cache', last'.key)
    /\ last'.op # "get" => cache_stats' = cache_stats
    /\ cache_stats'.invalidations <= cache_stats'.misses
    /\ last'.op = "get_stats" =>
          LET stats == last'.ret
              lookups == cache_stats.hits + cache_stats.misses
          IN  /\ stats.hits = cache_stats.hits
              /\ stats.misses = cache_stats.misses
              /\ stats.invalidations = cache_stats.invalidations
              /\ IF lookups = 0 THEN stats.hit_rate[1] = 0
                 ELSE stats.hit_rate[1] * lookups
                         = scale * cache_stats.hits * stats.hit_rate[2]
              /\ stats.cache_size = Len(response_cache)
              /\ response_cache' = response_cache
              /\ cache_stats' = cache_stats

\* C20 as stated: hit_rate = hits / (hits + misses).
C20_StatsAsFraction == [][StatsStep(1)]_vars

\* C20, amended: as stated, with hit_rate = 100 * hits / (hits + misses), a
\* percentage.
C20_Stats == [][StatsStep(100)]_vars

\* get_stats after one hit and one invalidation, with an entry in the store
C20_Witness ==
    /\ last.op = "get_stats"
    /\ last.ret.hits = 1
    /\ last.ret.misses = 1
    /\ last.ret.invalidations = 1
    /\ last.ret.hit_rate = <<100, 2>>
    /\ last.ret.cache_size > 0

(***************************************************************************)
(* Claims about clearing the store, under SpecClear.                       *)
(***************************************************************************)
\* C21: clear_by_intent(c) removes every entry whose stored intent equals c,
\* keeps every other entry as it was (key, response, timestamp, metadata)
\* and adds none, and leaves the statistics alone; clear removes every entry
\* and leaves the statistics alone.
C21_Clear ==
    [][ /\ last'.op = "clear_by_intent" =>
             /\ \A e \in Entries(response_cache) :
                   IF e.metadata.intent = last'.intent
                   THEN ~Has(response_cache', e.key)
                   ELSE e \in Entries(response_cache')
             /\ Entries(response_cache') \subseteq Entries(response_cache)
             /\ cache_stats' = cache_stats
        /\ last'.op = "clear" =>
             /\ response_cache' = <<>>
             /\ cache_stats' = cache_stats ]_vars

\* clear_by_intent("weather") removed a weather entry and kept one stored as
\* "Weather", after lookups had been counted
C21_Witness ==
    /\ last.op = "clear_by_intent"
    /\ last.intent = "weather"
    /\ last.removed = 1
    /\ Len(response_cache) = 1
    /\ response_cache[1].metadata.intent = "Weather"
    /\ cache_stats.hits > 0

(***************************************************************************)
(* Further claims about the single-window limiter, under SpecRL.           *)
(***************************************************************************)
LimiterOps == {"is_allowed", "get_retry_after", "get_remaining_requests"}

\* C22: an is_allowed, get_retry_after or get_remaining_requests call for one
\* identity leaves every other identity's entry in the map as it was, and
\* its result is determined by the called identity's own timestamps and the
\* clock: is_allowed by whether fewer than max_requests of them lie in the
\* window, get_remaining_requests by how many of them lie in the window,
\* get_retry_after by the oldest of them.
C22_Independence ==
    [][last'.op \in LimiterOps =>
         LET a == last'.user
             own == KeepNewer(Recorded(a), now - Window)
         IN  /\ \A b \in Users \ {a} :
                   /\ (b \in DOMAIN requests') = (b \in DOMAIN requests)
                   /\ RecordedIn(requests', b) = Recorded(b)
             /\ last'.op = "is_allowed" =>
                   last'.ret = (Len(own) < max_requests)
             /\ last'.op = "get_remaining_requests" =>
                   last'.ret = Max0(max_requests - Len(own))
             /\ last'.op = "get_retry_after" =>
                   IF Recorded(a) = <<>> THEN last'.ret = 0
                   ELSE WholeSecondsOf(last'.ret,
                                       SeqMin(Recorded(a)) + Window - now)]_vars

\* one identity was served while the other's list held a timestamp that had
\* left the window
C22_Witness ==
    /\ last.op = "is_allowed"
    /\ \E b \in Users \ {last.user} :
          /\ Recorded(b) # <<>>
          /\ ~InHorizon(b)


KeyCalls == last.op = "generate_cache_key" /\ last'.op = "generate_cache_key"

SameTuple ==
    /\ last'.query = last.query
    /\ last'.language = last.language
    /\ last'.location = last.location

NoBar(s) == \A i \in 1..Len(s) : s[i] # "|"

\* the query after lower() and strip(), the language or the location differs
LogicallyDifferent ==
    \/ normalized(last'.query) # normalized(last.query)
    \/ last'.language # last.language
    \/ last'.location # last.location

C25_WindowSize ==
    \A u \in DOMAIN requests : Len(requests[u]) <= max_requests

\* an identity whose list was full and had been pruned is full again
C25_Witness ==
    \E u \in Users :
       /\ Len(Recorded(u)) = max_requests
       /\ WasRejected(u)
       /\ \E i \in 1..Len(calls) :
             /\ calls[i] = <<u, calls[i][2], TRUE>>
             /\ calls[i][2] < SeqMin(Recorded(u))

\* C26: an is_allowed call that returns False leaves the identity's list as
\* the timestamps it held inside the window (nothing appended, only expired
\* ones pruned), so the oldest timestamp in the window, and with it the
\* moment from which the identity is allowed again, is the same before and
\* after the call.
C26_NotRecorded ==
    [][(last'.op = "is_allowed" /\ last'.ret = FALSE) =>
         LET u == last'.user
             in_window == KeepNewer(Recorded(u), now - Window)
         IN  /\ RecordedIn(requests', u) = in_window
             /\ in_window # <<>>
             /\ SeqMin(RecordedIn(requests', u)) = SeqMin(in_window)
             /\ Len(RecordedIn(requests', u)) <= Len(Recorded(u))]_vars

\* a retry was rejected at a later clock value than the first rejection
C26_Witness ==
    /\ last.op = "is_allowed"
    /\ last.ret = FALSE
    /\ \E i \in 1..Len(calls) :
          /\ calls[i] = <<last.user, calls[i][2], FALSE>>
          /\ calls[i][2] < now

\* The same for the check/record limiter (under SpecRace): a
\* validate_and_rate_limit whose check_rate_limit rejects leaves the session
\* with the timestamps of the last day it held before, nothing appended.
RejectedCheckRecordsNothing ==
    [][( /\ last'.op = "validate_and_rate_limit"
         /\ last'.ret[1] = FALSE
         /\ last'.ret[2] # "invalid" )
       => /\ Session \in DOMAIN rate_limit_data'
          /\ rate_limit_data'[Session]
                = KeepNewer(DefaultGet(rate_limit_data, Session)[Session],
                            now - Day)
          /\ pc' = pc]_vars

\* C23: for every category string (any letter case, unknown, or empty)
\* get_ttl returns the table value of the lower-cased name, or the default
\* 600 when the name is not in the table; the result is never negative, and
\* should_cache(category) is true exactly when the category's TTL is above 0.
TableValue(intent) ==
    IF Lower(intent) \in DOMAIN RULES THEN RULES[Lower(intent)] ELSE 600

C23_TTLPolicy ==
    /\ last.op = "get_ttl" =>
          /\ last.ret = TableValue(last.intent)
          /\ last.ret >= 0
    /\ last.op = "should_cache" =>
          last.ret = (TableValue(last.intent) > 0)

\* should_cache was asked about a never-cache category written in capitals
C23_Witness ==
    /\ last.op = "should_cache"
    /\ last.intent = "LIVE_DEALS"
    /\ last.ret = FALSE

\* C27: after set(k, v, category) with a cacheable category, k is in the store
\* with value v, also when the store was full and several entries, the new
\* one among them, carry the same creation timestamp.
C27_WrittenSurvives ==
    [][(SetStep /\ get_ttl(last'.intent) > 0) =>
         /\ Has(response_cache', last'.key)
         /\ response_cache'[IndexOf(response_cache', last'.key)].response
               = last'.value]_vars

\* a set into a full store whose entries all carry the clock's present value
\* left the key it wrote out of the store
C27_Evicted ==
    /\ last.op = "set"
    /\ get_ttl(last.intent) > 0
    /\ ~Has(response_cache, last.key)
    /\ Len(response_cache) = max_entries
    /\ \A e \in Entries(response_cache) : e.timestamp = now


SessionCalls == {"cached_response", "cache_response", "get_cache_stats"}

\* C28: once the process-wide ResponseCache has been created in one session,
\* cached_response, cache_response and get_cache_stats called from any
\* session complete without error.
C28_AnySession ==
    (_cache # None /\ last.op \in SessionCalls) => last.raised = None

\* a call from a session other than the one the instance was created in
\* ended in an exception
C28_OtherSessionRaises ==
    /\ last.op \in SessionCalls
    /\ last.raised = "AttributeError"
    /\ session_state[last.session] = {}
    /\ \E s \in Sessions : session_state[s] = CacheKeys

\* C29: whatever intent the reader passes to get, a value is returned only if
\* the entry's age is at most the TTL of the category it was stored with.
C29_WriterTTL ==
    [][( /\ GetStep
         /\ last'.found # Absent
         /\ last'.ret # Absent )
       => now - last'.found[1].timestamp
             <= Secs(get_ttl(last'.found[1].metadata.intent))]_vars

\* an entry written as "weather" was served to a reader passing "monuments"
\* when it was twice as old as the TTL of "weather"
C29_ServedByReaderTTL ==
    /\ last.op = "get"
    /\ last.intent = "monuments"
    /\ last.ret # Absent
    /\ last.found[1].metadata.intent = "weather"
    /\ now - last.found[1].timestamp = 2 * Secs(get_ttl("weather"))

\* C30: a call wrapper(query, arg) of a function decorated with smart_cache
\* returns what the function returns for exactly that query and that extra
\* argument: computed by this call on a miss, or computed earlier by the same
\* function for the same query and argument on a live hit.
C30_OwnArguments ==
    last.op = "wrapper" =>
       /\ last.ret.func = last.func
       /\ last.ret.query = last.query
       /\ last.ret.arg = last.arg

\* a hit returned, without calling the function, what the function had
\* computed for the same query and another extra argument
C30_OtherArgument ==
    /\ last.op = "wrapper"
    /\ ~last.invoked
    /\ last.ret.func = last.func
    /\ last.ret.query = last.query
    /\ last.ret.arg # last.arg

=============================================================================
